---- MODULE Spec2Model ----
(***************************************************************************)
(* The scoring core of the DeepTrust models service: the four analyzers    *)
(* (MesoNet, XceptionNet, FrequencyAnalyzer, BiologicalAnalyzer) and the   *)
(* EnsembleDetector that combines them.                                    *)
(*                                                                         *)
(* Numbers.  The code computes in floating point; the model computes in    *)
(* fixed point with ONE standing for 1.0, so that 0.5 is HALF, 0.30 is     *)
(* Dec(30, 100), and a product of two fractions is Mul(a, b).  Pixel-scale *)
(* quantities (mse, eye-region variance) are plain integers.               *)
(*                                                                         *)
(* Images.  An image is represented by what each analyzer's numeric front  *)
(* end (numpy, skimage hog, FFT/DCT, the cv2 cascades) extracts from it:   *)
(* either the intermediate quantities, or an exception raised inside the   *)
(* analyzer's try block.                                                   *)
(*                                                                         *)
(* Doubles.  Where the last bit of a sum decides (the all-fallback score), *)
(* SpecDoubles computes the ensemble in IEEE binary64, bit for bit, on     *)
(* two 30-bit limbs.                                                       *)
(*                                                                         *)
(* Backend.  SpecBackend models the auth service and the upload route of   *)
(* the analysis service over their shared users and analyses tables.       *)
(***************************************************************************)
EXTENDS Integers, Sequences, FiniteSets, TLC

VARIABLES
    analyzers,          \* EnsembleDetector.mesonet/.xception/.frequency/.biological
    weights,            \* EnsembleDetector.weights
    pc,                 \* position inside EnsembleDetector.predict
    image,              \* the argument of the running predict call
    mesonet_result,     \* locals of EnsembleDetector.predict
    xception_result,
    frequency_result,
    biological_result,
    calls,              \* the analyzers invoked so far by the running call, in order
    returned,           \* the value predict returned to its caller
    history,            \* an earlier predict call of this process: its image and result
    upload,             \* the upload the models service's HTTP handler is serving
    users,              \* the users table: per user id, absent or the row's is_active
    tokens,             \* the user ids for which login has issued an access token
    objects,            \* the object names stored in the bucket
    analyses,           \* the analyses table
    request,            \* the upload_file request in progress
    response            \* the HTTP response just sent by the auth or analysis service

vars == <<analyzers, weights, pc, image, mesonet_result, xception_result,
          frequency_result, biological_result, calls, returned, history, upload,
          users, tokens, objects, analyses, request, response>>

\* the database, the bucket and the HTTP exchange of the auth and analysis services
backend == <<users, tokens, objects, analyses, request, response>>

\* what lies outside EnsembleDetector.predict
outside == <<history, upload, backend>>

----------------------------------------------------------------------------
(* Fixed-point arithmetic *)

ONE == 10000

HALF == ONE \div 2

\* the decimal literal n/d
Dec(n, d) == (n * ONE) \div d

Mul(a, b) == (a * b) \div ONE

Div(a, b) == (a * ONE) \div b

Min(a, b) == IF b < a THEN b ELSE a

Abs(a) == IF a < 0 THEN 0 - a ELSE a

Names == {"mesonet", "xception", "frequency", "biological"}

\* the ids of the users that can come to exist (users.id)
UserIds == {"u1", "u2"}

\* A value that is not there yet (a local not assigned, nothing returned)
None == [none |-> TRUE]

\* An exception travelling outward from a call
Raised(msg) == [raised |-> msg]

IsRaised(r) == "raised" \in DOMAIN r

----------------------------------------------------------------------------
(* The inputs: what the numeric front ends extract from an image *)

\* np.var(gray) of the 256x256 luminance grid, in [0, 0.25]
VarianceValues == {0, Dec(5, 100), Dec(20, 100)}

\* np.mean(|diff rows|) + np.mean(|diff cols|), in [0, 2]
EdgeValues == {0, Dec(10, 100), Dec(30, 100)}

\* np.var(features) of the HOG descriptor
FeatureVarianceValues == {0, Dec(1, 100), Dec(2, 100), Dec(45, 1000), Dec(10, 100)}

\* high_freq_power / (total_power + 1e-10)
HfRatioValues == {0, Dec(20, 100), Dec(60, 100)}

\* hf_std / (hf_mean + 1e-10)
CvValues == {0, 5 * ONE, 20 * ONE}

\* the faces detectMultiScale finds, each given by the mse of its two halves
FaceValues == {<< >>, <<0>>, <<1000>>}

\* the eye regions detectMultiScale finds, each given by its pixel variance
EyeValues == {<< >>, <<0>>, <<300, 300>>, <<0, 300>>}

\* an exception raised inside an analyzer's try block
Exc == [exc |-> "internal error"]

Images ==
    [mesonet    : {Exc} \cup [variance : VarianceValues, edge_strength : EdgeValues],
     xception   : {Exc} \cup [feature_variance : FeatureVarianceValues],
     frequency  : {Exc} \cup [hf_ratio : HfRatioValues, cv : CvValues],
     biological : {Exc} \cup [faces : FaceValues, eyes : EyeValues]]

Fails(part) == "exc" \in DOMAIN part

----------------------------------------------------------------------------
(* MesoNet (mesonet.py) *)

\* MesoNet_try with the verdict taken by >= instead of >
MesoNet_try_ge(img) ==
    IF Fails(img.mesonet) THEN Raised(img.mesonet.exc)
    ELSE LET variance      == img.mesonet.variance
             edge_strength == img.mesonet.edge_strength
             texture_score == ONE - Min(variance * 10, ONE)
             edge_score    == ONE - Min(edge_strength * 5, ONE)
             score         == Mul(texture_score, Dec(6, 10)) + Mul(edge_score, Dec(4, 10))
         IN  [score      |-> score,
              is_fake    |-> score >= Dec(5, 10),
              confidence |-> Abs(score - Dec(5, 10)) * 2]

\* MesoNet_try with texture_score taken as min(variance * 10, 1.0)
MesoNet_try_rough(img) ==
    IF Fails(img.mesonet) THEN Raised(img.mesonet.exc)
    ELSE LET variance      == img.mesonet.variance
             edge_strength == img.mesonet.edge_strength
             texture_score == Min(variance * 10, ONE)
             edge_score    == ONE - Min(edge_strength * 5, ONE)
             score         == Mul(texture_score, Dec(6, 10)) + Mul(edge_score, Dec(4, 10))
         IN  [score      |-> score,
              is_fake    |-> score > Dec(5, 10),
              confidence |-> Abs(score - Dec(5, 10)) * 2]

\* MesoNet_try without the cap min(variance * 10, 1.0)
MesoNet_try_uncapped(img) ==
    IF Fails(img.mesonet) THEN Raised(img.mesonet.exc)
    ELSE LET variance      == img.mesonet.variance
             edge_strength == img.mesonet.edge_strength
             texture_score == ONE - variance * 10
             edge_score    == ONE - Min(edge_strength * 5, ONE)
             score         == Mul(texture_score, Dec(6, 10)) + Mul(edge_score, Dec(4, 10))
         IN  [score      |-> score,
              is_fake    |-> score > Dec(5, 10),
              confidence |-> Abs(score - Dec(5, 10)) * 2]

\* the body of the try block: preprocess, variance, edge strength, score
MesoNet_try(img) ==
    IF Fails(img.mesonet) THEN Raised(img.mesonet.exc)
    ELSE LET variance      == img.mesonet.variance
             edge_strength == img.mesonet.edge_strength
             texture_score == ONE - Min(variance * 10, ONE)
             edge_score    == ONE - Min(edge_strength * 5, ONE)
             score         == Mul(texture_score, Dec(6, 10)) + Mul(edge_score, Dec(4, 10))
         IN  [score      |-> score,
              is_fake    |-> score > Dec(5, 10),
              confidence |-> Abs(score - Dec(5, 10)) * 2]

\* try ... except Exception as e
MesoNet_predict(img) ==
    LET r == MesoNet_try(img)
    IN  IF IsRaised(r)
        THEN [score |-> Dec(5, 10), is_fake |-> FALSE, confidence |-> 0,
              error |-> r.raised]
        ELSE r

----------------------------------------------------------------------------
(* XceptionNet (xception.py) *)

\* XceptionNet_try without the cap min(..., 1.0)
XceptionNet_try_uncapped(img) ==
    IF Fails(img.xception) THEN Raised(img.xception.exc)
    ELSE LET feature_variance == img.xception.feature_variance
             anomaly_score    == Abs(feature_variance - Dec(2, 100)) * 20
         IN  [score      |-> anomaly_score,
              is_fake    |-> anomaly_score > Dec(5, 10),
              confidence |-> Abs(anomaly_score - Dec(5, 10)) * 2]

\* XceptionNet_try scoring the signed deviation from 0.02
XceptionNet_try_signed(img) ==
    IF Fails(img.xception) THEN Raised(img.xception.exc)
    ELSE LET feature_variance == img.xception.feature_variance
             anomaly_score    == Min((feature_variance - Dec(2, 100)) * 20, ONE)
         IN  [score      |-> anomaly_score,
              is_fake    |-> anomaly_score > Dec(5, 10),
              confidence |-> Abs(anomaly_score - Dec(5, 10)) * 2]

\* XceptionNet_try with the reference variance 0.05 instead of 0.02
XceptionNet_try_reference(img) ==
    IF Fails(img.xception) THEN Raised(img.xception.exc)
    ELSE LET feature_variance == img.xception.feature_variance
             anomaly_score    == Min(Abs(feature_variance - Dec(5, 100)) * 20, ONE)
         IN  [score      |-> anomaly_score,
              is_fake    |-> anomaly_score > Dec(5, 10),
              confidence |-> Abs(anomaly_score - Dec(5, 10)) * 2]

XceptionNet_try(img) ==
    IF Fails(img.xception) THEN Raised(img.xception.exc)
    ELSE LET feature_variance == img.xception.feature_variance
             anomaly_score    == Min(Abs(feature_variance - Dec(2, 100)) * 20, ONE)
         IN  [score      |-> anomaly_score,
              is_fake    |-> anomaly_score > Dec(5, 10),
              confidence |-> Abs(anomaly_score - Dec(5, 10)) * 2]

\* XceptionNet_predict without its except clause: the exception leaves predict
XceptionNet_predict_noexcept(img) == XceptionNet_try(img)

XceptionNet_predict(img) ==
    LET r == XceptionNet_try(img)
    IN  IF IsRaised(r)
        THEN [score |-> Dec(5, 10), is_fake |-> FALSE, confidence |-> 0,
              error |-> r.raised]
        ELSE r

----------------------------------------------------------------------------
(* FrequencyAnalyzer (frequency_analyzer.py) *)

analyze_fft(img) == Min(img.frequency.hf_ratio * 2, ONE)

analyze_dct(img) == Min(img.frequency.cv \div 10, ONE)

\* FrequencyAnalyzer_try reporting the two branch scores under each other's key
FrequencyAnalyzer_try_crossed(img) ==
    IF Fails(img.frequency) THEN Raised(img.frequency.exc)
    ELSE LET fft_score      == analyze_fft(img)
             dct_score      == analyze_dct(img)
             combined_score == Mul(fft_score, Dec(6, 10)) + Mul(dct_score, Dec(4, 10))
         IN  [score       |-> combined_score,
              is_fake     |-> combined_score > Dec(5, 10),
              confidence  |-> Abs(combined_score - Dec(5, 10)) * 2,
              fft_anomaly |-> dct_score,
              dct_anomaly |-> fft_score]

FrequencyAnalyzer_try(img) ==
    IF Fails(img.frequency) THEN Raised(img.frequency.exc)
    ELSE LET fft_score      == analyze_fft(img)
             dct_score      == analyze_dct(img)
             combined_score == Mul(fft_score, Dec(6, 10)) + Mul(dct_score, Dec(4, 10))
         IN  [score       |-> combined_score,
              is_fake     |-> combined_score > Dec(5, 10),
              confidence  |-> Abs(combined_score - Dec(5, 10)) * 2,
              fft_anomaly |-> fft_score,
              dct_anomaly |-> dct_score]

\* FrequencyAnalyzer_predict whose except clause reports score 0.0
FrequencyAnalyzer_predict_zero(img) ==
    LET r == FrequencyAnalyzer_try(img)
    IN  IF IsRaised(r)
        THEN [score |-> 0, is_fake |-> FALSE, confidence |-> 0,
              error |-> r.raised]
        ELSE r

FrequencyAnalyzer_predict(img) ==
    LET r == FrequencyAnalyzer_try(img)
    IN  IF IsRaised(r)
        THEN [score |-> Dec(5, 10), is_fake |-> FALSE, confidence |-> 0,
              error |-> r.raised]
        ELSE r

----------------------------------------------------------------------------
(* BiologicalAnalyzer (biological_analyzer.py) *)

\* detect_face_symmetry answering 0.0 when no face is found
detect_face_symmetry_zero(img) ==
    LET faces == img.biological.faces
    IN  IF Len(faces) = 0 THEN 0
        ELSE LET mse == faces[1]
             IN  Div(ONE, ONE + (mse * ONE) \div 1000)

detect_face_symmetry(img) ==
    LET faces == img.biological.faces
    IN  IF Len(faces) = 0 THEN Dec(5, 10)
        ELSE LET mse == faces[1]
             IN  Div(ONE, ONE + (mse * ONE) \div 1000)

detect_eye_patterns(img) ==
    LET eyes == img.biological.eyes
    IN  IF Len(eyes) < 2 THEN Dec(5, 10)
        ELSE LET eye_scores ==
                     [i \in 1..2 |-> Div(ONE, ONE + (eyes[i] * ONE) \div 100)]
             IN  (eye_scores[1] + eye_scores[2]) \div 2

\* BiologicalAnalyzer_try treating a detector miss as a failure
BiologicalAnalyzer_try_strict(img) ==
    IF Fails(img.biological) THEN Raised(img.biological.exc)
    ELSE IF Len(img.biological.faces) = 0 \/ Len(img.biological.eyes) < 2
    THEN Raised("nothing detected")
    ELSE LET symmetry_score == detect_face_symmetry(img)
             eye_score      == detect_eye_patterns(img)
             combined_score == Mul(symmetry_score, Dec(6, 10)) + Mul(eye_score, Dec(4, 10))
         IN  [score          |-> combined_score,
              is_fake        |-> combined_score > Dec(5, 10),
              confidence     |-> Abs(combined_score - Dec(5, 10)) * 2,
              symmetry_score |-> symmetry_score,
              eye_anomaly    |-> eye_score]

BiologicalAnalyzer_try(img) ==
    IF Fails(img.biological) THEN Raised(img.biological.exc)
    ELSE LET symmetry_score == detect_face_symmetry(img)
             eye_score      == detect_eye_patterns(img)
             combined_score == Mul(symmetry_score, Dec(6, 10)) + Mul(eye_score, Dec(4, 10))
         IN  [score          |-> combined_score,
              is_fake        |-> combined_score > Dec(5, 10),
              confidence     |-> Abs(combined_score - Dec(5, 10)) * 2,
              symmetry_score |-> symmetry_score,
              eye_anomaly    |-> eye_score]

\* BiologicalAnalyzer_predict without its except clause
BiologicalAnalyzer_predict_noexcept(img) == BiologicalAnalyzer_try(img)

BiologicalAnalyzer_predict(img) ==
    LET r == BiologicalAnalyzer_try(img)
    IN  IF IsRaised(r)
        THEN [score |-> Dec(5, 10), is_fake |-> FALSE, confidence |-> 0,
              error |-> r.raised]
        ELSE r

----------------------------------------------------------------------------
(* EnsembleDetector (ensemble.py) *)

\* What the constructor can be handed for an analyzer: the class main.py wires
\* in, or an object that breaks the AnalyzerResult contract (it raises, or
\* returns a dict without 'score', or one without 'is_fake').
Kinds == {"real", "raises", "no_score", "no_is_fake"}

\* At most MaxViolators of the four injected analyzers break the contract.
MaxViolators == 1

Wirings ==
    {w \in [Names -> Kinds] : Cardinality({n \in Names : w[n] # "real"}) <= MaxViolators}

\* predict of an injected object that breaks the contract
Violating_predict(kind) ==
    CASE kind = "raises"     -> Raised("analyzer raised")
      [] kind = "no_score"   -> [is_fake |-> FALSE, confidence |-> 0]
      [] kind = "no_is_fake" -> [score |-> Dec(5, 10), confidence |-> 0]

\* Invoke where xception, called after mesonet, answers from what mesonet left
Invoke_stateful(name, img) ==
    IF analyzers[name] # "real" THEN Violating_predict(analyzers[name])
    ELSE CASE name = "mesonet"    -> MesoNet_predict(img)
           [] name = "xception"   -> IF mesonet_result # None
                                     THEN MesoNet_predict(img)
                                     ELSE XceptionNet_predict(img)
           [] name = "frequency"  -> FrequencyAnalyzer_predict(img)
           [] name = "biological" -> BiologicalAnalyzer_predict(img)

\* self.<name>.predict(image)
Invoke(name, img) ==
    IF analyzers[name] # "real" THEN Violating_predict(analyzers[name])
    ELSE CASE name = "mesonet"    -> MesoNet_predict(img)
           [] name = "xception"   -> XceptionNet_predict(img)
           [] name = "frequency"  -> FrequencyAnalyzer_predict(img)
           [] name = "biological" -> BiologicalAnalyzer_predict(img)

\* self.weights as __init__ sets it
InitialWeights ==
    [mesonet    |-> Dec(30, 100),
     xception   |-> Dec(35, 100),
     frequency  |-> Dec(20, 100),
     biological |-> Dec(15, 100)]

\* SumVotes counting the False votes
SumVotes_real(votes) == Cardinality({n \in DOMAIN votes : ~votes[n]})

\* sum(votes.values()): True counts 1, False counts 0
SumVotes(votes) == Cardinality({n \in DOMAIN votes : votes[n]})

\* the except clause of EnsembleDetector.predict
Ensemble_except(e) ==
    [is_deepfake      |-> FALSE,
     confidence_score |-> 0,
     ensemble_score   |-> Dec(5, 10),
     error            |-> e]

\* Ensemble_combine with the mesonet and xception weights exchanged
Ensemble_combine_swapped(m, x, f, b, w) ==
    LET details == [mesonet |-> m, xception |-> x, frequency |-> f, biological |-> b]
    IN  IF \E n \in Names : "score" \notin DOMAIN details[n] THEN Raised("'score'")
        ELSE IF \E n \in Names : "is_fake" \notin DOMAIN details[n] THEN Raised("'is_fake'")
        ELSE
        LET scores == [n \in Names |-> details[n].score]
            ensemble_score ==
                Mul(scores["mesonet"], w["xception"]) +
                Mul(scores["xception"], w["mesonet"]) +
                Mul(scores["frequency"], w["frequency"]) +
                Mul(scores["biological"], w["biological"])
            is_deepfake == ensemble_score > Dec(5, 10)
            confidence  == Abs(ensemble_score - Dec(5, 10)) * 2
            votes       == [n \in Names |-> details[n].is_fake]
            votes_fake  == SumVotes(votes)
            votes_real  == Cardinality(DOMAIN votes) - votes_fake
        IN  [is_deepfake      |-> is_deepfake,
             confidence_score |-> confidence,
             ensemble_score   |-> ensemble_score,
             model_scores     |-> scores,
             voting           |-> [fake_votes       |-> votes_fake,
                                   real_votes       |-> votes_real,
                                   individual_votes |-> votes],
             ensemble_weights |-> w,
             model_details    |-> details]

\* Ensemble_combine with the verdict taken by >= instead of >
Ensemble_combine_ge(m, x, f, b, w) ==
    LET details == [mesonet |-> m, xception |-> x, frequency |-> f, biological |-> b]
    IN  IF \E n \in Names : "score" \notin DOMAIN details[n] THEN Raised("'score'")
        ELSE IF \E n \in Names : "is_fake" \notin DOMAIN details[n] THEN Raised("'is_fake'")
        ELSE
        LET scores == [n \in Names |-> details[n].score]
            ensemble_score ==
                Mul(scores["mesonet"], w["mesonet"]) +
                Mul(scores["xception"], w["xception"]) +
                Mul(scores["frequency"], w["frequency"]) +
                Mul(scores["biological"], w["biological"])
            is_deepfake == ensemble_score >= Dec(5, 10)
            confidence  == Abs(ensemble_score - Dec(5, 10)) * 2
            votes       == [n \in Names |-> details[n].is_fake]
            votes_fake  == SumVotes(votes)
            votes_real  == Cardinality(DOMAIN votes) - votes_fake
        IN  [is_deepfake      |-> is_deepfake,
             confidence_score |-> confidence,
             ensemble_score   |-> ensemble_score,
             model_scores     |-> scores,
             voting           |-> [fake_votes       |-> votes_fake,
                                   real_votes       |-> votes_real,
                                   individual_votes |-> votes],
             ensemble_weights |-> w,
             model_details    |-> details]

\* Ensemble_combine with the verdict taken by majority vote
Ensemble_combine_majority(m, x, f, b, w) ==
    LET details == [mesonet |-> m, xception |-> x, frequency |-> f, biological |-> b]
    IN  IF \E n \in Names : "score" \notin DOMAIN details[n] THEN Raised("'score'")
        ELSE IF \E n \in Names : "is_fake" \notin DOMAIN details[n] THEN Raised("'is_fake'")
        ELSE
        LET scores == [n \in Names |-> details[n].score]
            ensemble_score ==
                Mul(scores["mesonet"], w["mesonet"]) +
                Mul(scores["xception"], w["xception"]) +
                Mul(scores["frequency"], w["frequency"]) +
                Mul(scores["biological"], w["biological"])
            votes       == [n \in Names |-> details[n].is_fake]
            votes_fake  == SumVotes(votes)
            votes_real  == Cardinality(DOMAIN votes) - votes_fake
            is_deepfake == votes_fake > votes_real
            confidence  == Abs(ensemble_score - Dec(5, 10)) * 2
        IN  [is_deepfake      |-> is_deepfake,
             confidence_score |-> confidence,
             ensemble_score   |-> ensemble_score,
             model_scores     |-> scores,
             voting           |-> [fake_votes       |-> votes_fake,
                                   real_votes       |-> votes_real,
                                   individual_votes |-> votes],
             ensemble_weights |-> w,
             model_details    |-> details]

\* Ensemble_combine that calls a deepfake only above 0.8
Ensemble_combine_cautious(m, x, f, b, w) ==
    LET details == [mesonet |-> m, xception |-> x, frequency |-> f, biological |-> b]
    IN  IF \E n \in Names : "score" \notin DOMAIN details[n] THEN Raised("'score'")
        ELSE IF \E n \in Names : "is_fake" \notin DOMAIN details[n] THEN Raised("'is_fake'")
        ELSE
        LET scores == [n \in Names |-> details[n].score]
            ensemble_score ==
                Mul(scores["mesonet"], w["mesonet"]) +
                Mul(scores["xception"], w["xception"]) +
                Mul(scores["frequency"], w["frequency"]) +
                Mul(scores["biological"], w["biological"])
            is_deepfake == ensemble_score > Dec(8, 10)
            confidence  == Abs(ensemble_score - Dec(5, 10)) * 2
            votes       == [n \in Names |-> details[n].is_fake]
            votes_fake  == SumVotes(votes)
            votes_real  == Cardinality(DOMAIN votes) - votes_fake
        IN  [is_deepfake      |-> is_deepfake,
             confidence_score |-> confidence,
             ensemble_score   |-> ensemble_score,
             model_scores     |-> scores,
             voting           |-> [fake_votes       |-> votes_fake,
                                   real_votes       |-> votes_real,
                                   individual_votes |-> votes],
             ensemble_weights |-> w,
             model_details    |-> details]

\* the try block of EnsembleDetector.predict from "Extract scores" to the
\* return; a missing key raises KeyError
Ensemble_combine(m, x, f, b, w) ==
    LET details == [mesonet |-> m, xception |-> x, frequency |-> f, biological |-> b]
    IN  IF \E n \in Names : "score" \notin DOMAIN details[n] THEN Raised("'score'")
        ELSE IF \E n \in Names : "is_fake" \notin DOMAIN details[n] THEN Raised("'is_fake'")
        ELSE
        LET scores == [n \in Names |-> details[n].score]
            ensemble_score ==
                Mul(scores["mesonet"], w["mesonet"]) +
                Mul(scores["xception"], w["xception"]) +
                Mul(scores["frequency"], w["frequency"]) +
                Mul(scores["biological"], w["biological"])
            is_deepfake == ensemble_score > Dec(5, 10)
            confidence  == Abs(ensemble_score - Dec(5, 10)) * 2
            votes       == [n \in Names |-> details[n].is_fake]
            votes_fake  == SumVotes(votes)
            votes_real  == Cardinality(DOMAIN votes) - votes_fake
        IN  [is_deepfake      |-> is_deepfake,
             confidence_score |-> confidence,
             ensemble_score   |-> ensemble_score,
             model_scores     |-> scores,
             voting           |-> [fake_votes       |-> votes_fake,
                                   real_votes       |-> votes_real,
                                   individual_votes |-> votes],
             ensemble_weights |-> w,
             model_details    |-> details]

----------------------------------------------------------------------------
(* The state machine *)

Init ==
    /\ analyzers \in Wirings
    /\ weights = InitialWeights
    /\ pc = "idle"
    /\ image = None
    /\ mesonet_result = None
    /\ xception_result = None
    /\ frequency_result = None
    /\ biological_result = None
    /\ calls = << >>
    /\ returned = None
    /\ history = None
    /\ upload = None
    /\ users = [u \in UserIds |-> None]
    /\ tokens = {}
    /\ objects = {}
    /\ analyses = {}
    /\ request = None
    /\ response = None

\* a caller calls ensemble.predict(image)
Predict ==
    /\ pc = "idle"
    /\ \E img \in Images : image' = img
    /\ pc' = "mesonet"
    /\ mesonet_result' = None
    /\ xception_result' = None
    /\ frequency_result' = None
    /\ biological_result' = None
    /\ calls' = << >>
    /\ returned' = None
    /\ UNCHANGED <<analyzers, weights>>

\* RunMesonet whose preprocess resizes the caller's image in place, so that
\* XceptionNet's preprocess then fails on it
RunMesonet_inplace ==
    /\ pc = "mesonet"
    /\ calls' = Append(calls, "mesonet")
    /\ image' = [image EXCEPT !.xception = Exc]
    /\ LET r == Invoke("mesonet", image)
       IN  IF IsRaised(r)
           THEN /\ returned' = Ensemble_except(r.raised)
                /\ pc' = "done"
                /\ UNCHANGED mesonet_result
           ELSE /\ mesonet_result' = r
                /\ pc' = "xception"
                /\ UNCHANGED returned
    /\ UNCHANGED <<analyzers, weights, xception_result, frequency_result,
                   biological_result>>

\* mesonet_result = self.mesonet.predict(image)
RunMesonet ==
    /\ pc = "mesonet"
    /\ calls' = Append(calls, "mesonet")
    /\ LET r == Invoke("mesonet", image)
       IN  IF IsRaised(r)
           THEN /\ returned' = Ensemble_except(r.raised)
                /\ pc' = "done"
                /\ UNCHANGED mesonet_result
           ELSE /\ mesonet_result' = r
                /\ pc' = "xception"
                /\ UNCHANGED returned
    /\ UNCHANGED <<analyzers, weights, image, xception_result, frequency_result,
                   biological_result>>

\* xception_result = self.xception.predict(image)
RunXception ==
    /\ pc = "xception"
    /\ calls' = Append(calls, "xception")
    /\ LET r == Invoke("xception", image)
       IN  IF IsRaised(r)
           THEN /\ returned' = Ensemble_except(r.raised)
                /\ pc' = "done"
                /\ UNCHANGED xception_result
           ELSE /\ xception_result' = r
                /\ pc' = "frequency"
                /\ UNCHANGED returned
    /\ UNCHANGED <<analyzers, weights, image, mesonet_result, frequency_result,
                   biological_result>>

\* RunFrequency going on to the combination without the biological analyzer
RunFrequency_last ==
    /\ pc = "frequency"
    /\ calls' = Append(calls, "frequency")
    /\ LET r == Invoke("frequency", image)
       IN  IF IsRaised(r)
           THEN /\ returned' = Ensemble_except(r.raised)
                /\ pc' = "done"
                /\ UNCHANGED frequency_result
           ELSE /\ frequency_result' = r
                /\ pc' = "combine"
                /\ UNCHANGED returned
    /\ UNCHANGED <<analyzers, weights, image, mesonet_result, xception_result,
                   biological_result>>

\* RunFrequency that takes the neutral fallback for a raising analyzer and goes on
RunFrequency_resilient ==
    /\ pc = "frequency"
    /\ calls' = Append(calls, "frequency")
    /\ LET r == Invoke("frequency", image)
       IN  frequency_result' =
               IF IsRaised(r)
               THEN [score |-> Dec(5, 10), is_fake |-> FALSE, confidence |-> 0,
                     error |-> r.raised]
               ELSE r
    /\ pc' = "biological"
    /\ UNCHANGED <<analyzers, weights, image, mesonet_result, xception_result,
                   biological_result, returned>>

\* frequency_result = self.frequency.predict(image)
RunFrequency ==
    /\ pc = "frequency"
    /\ calls' = Append(calls, "frequency")
    /\ LET r == Invoke("frequency", image)
       IN  IF IsRaised(r)
           THEN /\ returned' = Ensemble_except(r.raised)
                /\ pc' = "done"
                /\ UNCHANGED frequency_result
           ELSE /\ frequency_result' = r
                /\ pc' = "biological"
                /\ UNCHANGED returned
    /\ UNCHANGED <<analyzers, weights, image, mesonet_result, xception_result,
                   biological_result>>

\* biological_result = self.biological.predict(image)
RunBiological ==
    /\ pc = "biological"
    /\ calls' = Append(calls, "biological")
    /\ LET r == Invoke("biological", image)
       IN  IF IsRaised(r)
           THEN /\ returned' = Ensemble_except(r.raised)
                /\ pc' = "done"
                /\ UNCHANGED biological_result
           ELSE /\ biological_result' = r
                /\ pc' = "combine"
                /\ UNCHANGED returned
    /\ UNCHANGED <<analyzers, weights, image, mesonet_result, xception_result,
                   frequency_result>>

\* Combine with the key lookups outside the try block: a KeyError leaves predict
Combine_uncaught ==
    /\ pc = "combine"
    /\ returned' = Ensemble_combine(mesonet_result, xception_result, frequency_result,
                                    biological_result, weights)
    /\ pc' = "done"
    /\ UNCHANGED <<analyzers, weights, image, mesonet_result, xception_result,
                   frequency_result, biological_result, calls>>

\* Combine that also lowers self.weights['mesonet'] for the calls to come
Combine_adapting ==
    /\ pc = "combine"
    /\ LET r == Ensemble_combine(mesonet_result, xception_result, frequency_result,
                                 biological_result, weights)
       IN  returned' = IF IsRaised(r) THEN Ensemble_except(r.raised) ELSE r
    /\ weights' = [weights EXCEPT !["mesonet"] = 0]
    /\ pc' = "done"
    /\ UNCHANGED <<analyzers, image, mesonet_result, xception_result,
                   frequency_result, biological_result, calls>>

\* scores, ensemble_score, verdict, votes, result; return result
Combine ==
    /\ pc = "combine"
    /\ LET r == Ensemble_combine(mesonet_result, xception_result, frequency_result,
                                 biological_result, weights)
       IN  returned' = IF IsRaised(r) THEN Ensemble_except(r.raised) ELSE r
    /\ pc' = "done"
    /\ UNCHANGED <<analyzers, weights, image, mesonet_result, xception_result,
                   frequency_result, biological_result, calls>>

\* the caller has the result; the call's frame is gone
Finish ==
    /\ pc = "done"
    /\ pc' = "idle"
    /\ image' = None
    /\ mesonet_result' = None
    /\ xception_result' = None
    /\ frequency_result' = None
    /\ biological_result' = None
    /\ calls' = << >>
    /\ returned' = None
    /\ UNCHANGED <<analyzers, weights>>

\* direct calls of ensemble.predict, one after the other
Next ==
    \/ Predict /\ UNCHANGED outside
    \/ RunMesonet /\ UNCHANGED outside
    \/ RunXception /\ UNCHANGED outside
    \/ RunFrequency /\ UNCHANGED outside
    \/ RunBiological /\ UNCHANGED outside
    \/ Combine /\ UNCHANGED outside
    \/ Finish /\ UNCHANGED outside

Spec == Init /\ [][Next]_vars

----------------------------------------------------------------------------
(* Vocabulary of the properties *)

\* the local of the running call that holds analyzer n's result
ResultOf(n) ==
    CASE n = "mesonet"    -> mesonet_result
      [] n = "xception"   -> xception_result
      [] n = "frequency"  -> frequency_result
      [] n = "biological" -> biological_result

\* analyzer n is one of the four classes of the repository and has returned
Returned(n) == analyzers[n] = "real" /\ ResultOf(n) # None

\* the neutral fallback: score 0.5, is_fake false, confidence 0, error set
IsNeutralFallback(r) ==
    /\ "error" \in DOMAIN r
    /\ r.score = HALF
    /\ r.is_fake = FALSE
    /\ r.confidence = 0

\* predict has returned, and on its normal path (the full result)
NormalPath == pc = "done" /\ "model_details" \in DOMAIN returned

\* predict has returned its safe default
IsSafeDefault(r) ==
    /\ r.is_deepfake = FALSE
    /\ r.confidence_score = 0
    /\ r.ensemble_score = HALF
    /\ "error" \in DOMAIN r

----------------------------------------------------------------------------
(* C1: every result an analyzer's predict returns, computed or fallback,   *)
(* has is_fake == (score > 0.5) and confidence == |score - 0.5| * 2.       *)
C1_ResultConsistent ==
    \A n \in Names :
        Returned(n) =>
            LET r == ResultOf(n)
            IN  /\ r.is_fake = (r.score > HALF)
                /\ r.confidence = Abs(r.score - HALF) * 2

\* a computed result that says fake, one exactly at 0.5, and a fallback
C1_Witness ==
    /\ pc = "combine"
    /\ \A n \in Names : analyzers[n] = "real"
    /\ "error" \notin DOMAIN mesonet_result /\ mesonet_result.score = HALF
    /\ "error" \in DOMAIN xception_result
    /\ "error" \notin DOMAIN frequency_result /\ frequency_result.is_fake
    /\ "error" \notin DOMAIN biological_result /\ biological_result.confidence > 0

(* C2: every analyzer's score lies in [0, 1].                              *)
C2_ScoreInUnitInterval ==
    \A n \in Names :
        Returned(n) => (0 <= ResultOf(n).score /\ ResultOf(n).score <= ONE)

\* both ends are reached, the upper one by a capped value
C2_Witness ==
    /\ pc = "combine"
    /\ \A n \in Names : analyzers[n] = "real"
    /\ ~Fails(image.xception)
    /\ Abs(image.xception.feature_variance - Dec(2, 100)) * 20 > ONE
    /\ xception_result.score = ONE
    /\ mesonet_result.score = 0

(* C3: on the normal path ensemble_score is the sum over the four          *)
(* analyzers of ensemble_weights[name] * model_scores[name], and           *)
(* model_scores[name] is exactly the score of model_details[name].         *)
C3_WeightedSum ==
    NormalPath =>
        /\ returned.ensemble_score =
               Mul(returned.ensemble_weights["mesonet"], returned.model_scores["mesonet"]) +
               Mul(returned.ensemble_weights["xception"], returned.model_scores["xception"]) +
               Mul(returned.ensemble_weights["frequency"], returned.model_scores["frequency"]) +
               Mul(returned.ensemble_weights["biological"], returned.model_scores["biological"])
        /\ \A n \in Names : returned.model_scores[n] = returned.model_details[n].score

\* a normal-path result over four computed, pairwise different scores
C3_Witness ==
    /\ NormalPath
    /\ \A n \in Names : "error" \notin DOMAIN returned.model_details[n]
    /\ \A n1, n2 \in Names : n1 # n2 => returned.model_scores[n1] # returned.model_scores[n2]

\* analyzer scores 0.8, 0.2, 0.6, 0.4
Scenario4 ==
    [mesonet |-> Dec(8, 10), xception |-> Dec(2, 10), frequency |-> Dec(6, 10),
     biological |-> Dec(4, 10)]

(* C4: every result predict returns, the safe default included, has        *)
(* is_deepfake == (ensemble_score > 0.5) and confidence_score ==           *)
(* |ensemble_score - 0.5| * 2; analyzer scores 0.8, 0.2, 0.6, 0.4 give     *)
(* ensemble_score 0.49, is_deepfake false, confidence_score 0.02.          *)
C4_VerdictConsistent ==
    /\ pc = "done" =>
           /\ returned.is_deepfake = (returned.ensemble_score > HALF)
           /\ returned.confidence_score = Abs(returned.ensemble_score - HALF) * 2
    /\ (NormalPath /\ returned.model_scores = Scenario4) =>
           /\ returned.ensemble_score = Dec(49, 100)
           /\ returned.is_deepfake = FALSE
           /\ returned.confidence_score = Dec(2, 100)

C4_Witness == NormalPath /\ returned.model_scores = Scenario4

(* C5: predict never lets an exception out: when an analyzer raises        *)
(* outward or returns a result without 'score' or 'is_fake', predict       *)
(* returns the safe default (is_deepfake false, confidence_score 0,        *)
(* ensemble_score 0.5, error populated).                                   *)
C5_NeverPropagates ==
    /\ pc = "done" => (returned # None /\ ~IsRaised(returned))
    /\ pc # "done" => returned = None
    /\ (pc = "done" /\ \E n \in Names : analyzers[n] # "real") => IsSafeDefault(returned)

\* all four analyzers ran, one returned a dict without 'score'
C5_Witness ==
    /\ pc = "done"
    /\ \E n \in Names : analyzers[n] = "no_score"
    /\ Len(calls) = 4
    /\ IsSafeDefault(returned)

\* the fields of an EnsembleResult
EnsembleResultFields ==
    {"is_deepfake", "confidence_score", "ensemble_score", "model_scores", "voting",
     "ensemble_weights", "model_details"}

(* C6: every value predict returns, also after an analyzer contract        *)
(* violation, carries is_deepfake, confidence_score, ensemble_score,       *)
(* model_scores, voting, ensemble_weights and model_details.               *)
C6_WellFormedAlways ==
    pc = "done" => EnsembleResultFields \subseteq DOMAIN returned

\* the analyzers the running call has invoked
Invoked == {calls[i] : i \in 1..Len(calls)}

(* C7: no analyzer raises outward: each analyzer's predict returns a       *)
(* result for every input, and when an exception occurred inside it the    *)
(* result is the neutral fallback (score 0.5, is_fake false, confidence 0, *)
(* error set).                                                             *)
C7_AnalyzersContainErrors ==
    \A n \in Names :
        (analyzers[n] = "real" /\ n \in Invoked) =>
            /\ ResultOf(n) # None
            /\ {"score", "is_fake", "confidence"} \subseteq DOMAIN ResultOf(n)
            /\ Fails(image[n]) => IsNeutralFallback(ResultOf(n))

\* the biological analyzer's detector raised and predict returned the fallback
C7_Witness ==
    /\ analyzers["biological"] = "real"
    /\ "biological" \in Invoked
    /\ Fails(image.biological)
    /\ IsNeutralFallback(biological_result)

(* C8: error is present in an AnalyzerResult only when the analyzer fell   *)
(* back, and then score is 0.5, is_fake false and confidence 0.            *)
C8_ErrorOnlyOnFallback ==
    \A n \in Names :
        (Returned(n) /\ "error" \in DOMAIN ResultOf(n)) =>
            /\ Fails(image[n])
            /\ ResultOf(n).score = HALF
            /\ ResultOf(n).is_fake = FALSE
            /\ ResultOf(n).confidence = 0

\* a fallback with error beside a computed 0.5 without error
C8_Witness ==
    /\ pc = "combine"
    /\ \A n \in Names : analyzers[n] = "real"
    /\ "error" \in DOMAIN frequency_result
    /\ "error" \notin DOMAIN biological_result
    /\ biological_result.score = HALF

\* the analyzers whose try block raises on the image of the running call
Failing == {n \in Names : Fails(image[n])}

\* the score analyzer n computes on img when its try block does not raise
ComputedScore(n, img) ==
    CASE n = "mesonet"    -> MesoNet_try(img).score
      [] n = "xception"   -> XceptionNet_try(img).score
      [] n = "frequency"  -> FrequencyAnalyzer_try(img).score
      [] n = "biological" -> BiologicalAnalyzer_try(img).score

\* what analyzer n contributes to ensemble_score when the fallback stands for
\* a failed analyzer
Contribution(n) ==
    Mul(IF n \in Failing THEN HALF ELSE ComputedScore(n, image), InitialWeights[n])

(* C9: when exactly one analyzer fails internally, predict still returns   *)
(* the full computed result: the failed analyzer contributes 0.5 times its *)
(* weight, its model_details entry carries error, and the other three      *)
(* scores are used unchanged.                                              *)
C9_OneFailureStillComputes ==
    (/\ pc = "done"
     /\ \A n \in Names : analyzers[n] = "real"
     /\ Cardinality(Failing) = 1) =>
        /\ NormalPath
        /\ "error" \notin DOMAIN returned
        /\ \A n \in Failing :
               /\ "error" \in DOMAIN returned.model_details[n]
               /\ returned.model_scores[n] = HALF
        /\ \A n \in Names \ Failing :
               /\ "error" \notin DOMAIN returned.model_details[n]
               /\ returned.model_scores[n] = ComputedScore(n, image)
        /\ returned.ensemble_score =
               Contribution("mesonet") + Contribution("xception") +
               Contribution("frequency") + Contribution("biological")

\* only mesonet failed; the verdict comes from the other three and the 0.5
C9_Witness ==
    /\ pc = "done"
    /\ \A n \in Names : analyzers[n] = "real"
    /\ Failing = {"mesonet"}
    /\ NormalPath
    /\ returned.is_deepfake

(* C10: on the normal path fake_votes + real_votes == 4, fake_votes is the *)
(* number of true entries of individual_votes, and individual_votes[name]  *)
(* is the is_fake of model_details[name].                                  *)
C10_VotingCounts ==
    NormalPath =>
        LET v == returned.voting
        IN  /\ v.fake_votes + v.real_votes = 4
            /\ v.fake_votes = Cardinality({n \in Names : v.individual_votes[n]})
            /\ \A n \in Names :
                   v.individual_votes[n] = returned.model_details[n].is_fake

\* three analyzers vote fake, one votes real
C10_Witness ==
    /\ NormalPath
    /\ returned.voting.fake_votes = 3
    /\ returned.voting.real_votes = 1

\* the votes of a normal-path result and its verdict point in different directions
VotesDisagree(r) ==
    \/ r.voting.real_votes > r.voting.fake_votes /\ r.ensemble_score > HALF
    \/ r.voting.fake_votes > r.voting.real_votes /\ r.ensemble_score <= HALF
    \/ r.voting.fake_votes = r.voting.real_votes

(* C11: the verdict is_deepfake follows ensemble_score alone, never the    *)
(* vote tally: also when the majority votes the other way, or the votes    *)
(* tie, is_deepfake is ensemble_score > 0.5 and the voting block still     *)
(* reports the analyzers' own votes.                                       *)
C11_VerdictIgnoresVotes ==
    (NormalPath /\ VotesDisagree(returned)) =>
        /\ returned.is_deepfake = (returned.ensemble_score > HALF)
        /\ \A n \in Names :
               returned.voting.individual_votes[n] = returned.model_details[n].is_fake
        /\ returned.voting.fake_votes =
               Cardinality({n \in Names : returned.model_details[n].is_fake})

\* three analyzers vote real, the score says deepfake
C11_Witness ==
    /\ NormalPath
    /\ \A n \in Names : analyzers[n] = "real"
    /\ returned.voting.real_votes = 3
    /\ returned.voting.fake_votes = 1
    /\ returned.is_deepfake

\* three analyzers vote fake, the score says authentic
C11_WitnessMajorityFake ==
    /\ NormalPath
    /\ \A n \in Names : analyzers[n] = "real"
    /\ returned.voting.fake_votes = 3
    /\ ~returned.is_deepfake

\* the votes tie
C11_WitnessTie ==
    /\ NormalPath
    /\ \A n \in Names : analyzers[n] = "real"
    /\ returned.voting.fake_votes = 2
    /\ returned.voting.real_votes = 2

----------------------------------------------------------------------------
(* A caller that writes into the result it was given *)

\* main.py's startup wires in the four classes of the repository
InitWired == Init /\ \A n \in Names : analyzers[n] = "real"

\* the values a caller stores under a key of result['ensemble_weights']
CallerWrites == {0}

\* result['ensemble_weights'][n] = v: the mapping in the result is the object
\* self.weights itself, so the store shows in both
CallerModifiesWeights ==
    /\ NormalPath
    /\ \E n \in Names : \E v \in CallerWrites :
           /\ weights[n] # v
           /\ weights' = [weights EXCEPT ![n] = v]
           /\ returned' = [returned EXCEPT !.ensemble_weights = weights']
    /\ UNCHANGED <<analyzers, pc, image, mesonet_result, xception_result,
                   frequency_result, biological_result, calls>>

NextAnyCaller ==
    \/ Next
    \/ CallerModifiesWeights /\ UNCHANGED outside

SpecAnyCaller == InitWired /\ [][NextAnyCaller]_vars

(* C12: in every reachable state, after any sequence of predict calls and  *)
(* any use the caller makes of the results (modifying the ensemble_weights *)
(* mapping of a result included), the combiner's weights are mesonet 0.30, *)
(* xception 0.35, frequency 0.20, biological 0.15 and sum to 1.0.          *)
C12_WeightsFixed ==
    /\ weights = InitialWeights
    /\ weights["mesonet"] + weights["xception"] + weights["frequency"] +
       weights["biological"] = ONE

----------------------------------------------------------------------------
(* C13: every result BiologicalAnalyzer.predict returns, the neutral       *)
(* fallback after a detector exception included, carries symmetry_score    *)
(* and eye_anomaly.                                                        *)
C13_DiagnosticsAlways ==
    Returned("biological") =>
        {"symmetry_score", "eye_anomaly"} \subseteq DOMAIN biological_result

----------------------------------------------------------------------------
(* C14: in a result BiologicalAnalyzer.predict computed, no detected face  *)
(* gives symmetry_score 0.5 and fewer than two detected eye regions give   *)
(* eye_score (reported as eye_anomaly) 0.5, each whatever the other        *)
(* detector found; with both, score is 0.5, is_fake false, confidence 0.   *)
BiologicalComputed ==
    /\ analyzers["biological"] = "real"
    /\ Returned("biological")
    /\ ~Fails(image.biological)

NoFace == Len(image.biological.faces) = 0

FewEyes == Len(image.biological.eyes) < 2

C14_NeutralWithoutFaceOrEyes ==
    BiologicalComputed =>
        /\ NoFace => biological_result.symmetry_score = Dec(5, 10)
        /\ FewEyes => biological_result.eye_anomaly = Dec(5, 10)
        /\ (NoFace /\ FewEyes) =>
               /\ biological_result.score = Dec(5, 10)
               /\ biological_result.is_fake = FALSE
               /\ biological_result.confidence = 0
               /\ "error" \notin DOMAIN biological_result

\* neither a face nor an eye pair: the neutral result, computed
C14_Witness ==
    /\ BiologicalComputed /\ NoFace /\ FewEyes
    /\ biological_result.score = Dec(5, 10)
    /\ "error" \notin DOMAIN biological_result

\* no face but two eyes: symmetry_score is 0.5 while eye_anomaly is not
C14_WitnessFaceOnly ==
    /\ BiologicalComputed /\ NoFace /\ ~FewEyes
    /\ biological_result.symmetry_score = Dec(5, 10)
    /\ biological_result.eye_anomaly # Dec(5, 10)

\* a face but one eye: eye_anomaly is 0.5 while symmetry_score is not
C14_WitnessEyesOnly ==
    /\ BiologicalComputed /\ ~NoFace /\ FewEyes
    /\ biological_result.eye_anomaly = Dec(5, 10)
    /\ biological_result.symmetry_score # Dec(5, 10)

----------------------------------------------------------------------------
(* C15: for an image of constant luminance (variance 0, edge_strength 0)   *)
(* MesoNet.predict returns score 1.0 (texture_score 1.0 and edge_score 1.0 *)
(* combined), is_fake true and confidence 1.0.                             *)
MesoNetComputed ==
    /\ analyzers["mesonet"] = "real"
    /\ Returned("mesonet")
    /\ ~Fails(image.mesonet)

FlatLuminance ==
    /\ image.mesonet.variance = 0
    /\ image.mesonet.edge_strength = 0

C15_FlatImageIsFake ==
    (MesoNetComputed /\ FlatLuminance) =>
        mesonet_result = [score |-> ONE, is_fake |-> TRUE, confidence |-> ONE]

C15_Witness ==
    /\ MesoNetComputed /\ FlatLuminance
    /\ mesonet_result.score = ONE
    /\ mesonet_result.is_fake

----------------------------------------------------------------------------
(* C16: ensemble_score, the verdict and the normal-path result are derived *)
(* only once all four analyzer results are there, computed or fallen back: *)
(* the combination starts with four results, nothing is returned before    *)
(* it, and a normal-path result reports exactly those four.                *)
AllFourAvailable == \A n \in Names : ResultOf(n) # None

AllFourCalled == calls = <<"mesonet", "xception", "frequency", "biological">>

C16_ScoreAfterAllFour ==
    /\ pc = "combine" => AllFourAvailable /\ AllFourCalled
    /\ pc \notin {"done"} => returned = None
    /\ NormalPath =>
           /\ AllFourAvailable /\ AllFourCalled
           /\ \A n \in Names :
                  /\ returned.model_details[n] = ResultOf(n)
                  /\ returned.model_scores[n] = ResultOf(n).score

\* a normal-path result over three computed results and one fallback
C16_Witness ==
    /\ NormalPath
    /\ AllFourAvailable
    /\ Cardinality({n \in Names : "error" \in DOMAIN ResultOf(n)}) = 1
    /\ returned.ensemble_score # Dec(5, 10)

----------------------------------------------------------------------------
(* The four analyzer calls of predict taken in any order *)

\* ensemble.predict(image) entered; the analyzers are yet to be called
PredictAnyOrder ==
    /\ pc = "idle"
    /\ \E img \in Images : image' = img
    /\ pc' = "analyzers"
    /\ mesonet_result' = None
    /\ xception_result' = None
    /\ frequency_result' = None
    /\ biological_result' = None
    /\ calls' = << >>
    /\ returned' = None
    /\ UNCHANGED <<analyzers, weights>>

\* <name>_result = r, the other three locals as they are
BindResult(n, r) ==
    /\ mesonet_result'    = IF n = "mesonet"    THEN r ELSE mesonet_result
    /\ xception_result'   = IF n = "xception"   THEN r ELSE xception_result
    /\ frequency_result'  = IF n = "frequency"  THEN r ELSE frequency_result
    /\ biological_result' = IF n = "biological" THEN r ELSE biological_result

\* <name>_result = self.<name>.predict(image), for any analyzer not yet called
RunAny ==
    /\ pc = "analyzers"
    /\ \E n \in Names \ Invoked :
           /\ calls' = Append(calls, n)
           /\ LET r == Invoke(n, image)
              IN  IF IsRaised(r)
                  THEN /\ returned' = Ensemble_except(r.raised)
                       /\ pc' = "done"
                       /\ UNCHANGED <<mesonet_result, xception_result,
                                      frequency_result, biological_result>>
                  ELSE /\ BindResult(n, r)
                       /\ pc' = IF Len(calls) = 3 THEN "combine" ELSE "analyzers"
                       /\ UNCHANGED returned
    /\ UNCHANGED <<analyzers, weights, image>>

NextAnyOrder ==
    \/ PredictAnyOrder /\ UNCHANGED outside
    \/ RunAny /\ UNCHANGED outside
    \/ Combine /\ UNCHANGED outside
    \/ Finish /\ UNCHANGED outside

SpecAnyOrder == InitWired /\ [][NextAnyOrder]_vars

\* what predict returns for an image when the calls are made in source order
ResultInSourceOrder(img) ==
    Ensemble_combine(MesoNet_predict(img), XceptionNet_predict(img),
                     FrequencyAnalyzer_predict(img), BiologicalAnalyzer_predict(img),
                     InitialWeights)

----------------------------------------------------------------------------
(* Calls of predict one after the other in one process, one of them        *)
(* remembered (history) so that a later call on the same image can be held *)
(* against it                                                              *)

\* images of the predictions made between the two calls that are compared
OtherImages ==
    {[mesonet    |-> Exc, xception |-> Exc, frequency |-> Exc, biological |-> Exc],
     [mesonet    |-> [variance |-> 0, edge_strength |-> 0],
      xception   |-> [feature_variance |-> 0],
      frequency  |-> [hf_ratio |-> 0, cv |-> 0],
      biological |-> [faces |-> << >>, eyes |-> << >>]]}

\* ensemble.predict(image): once a call is remembered, on its image again or
\* on one of OtherImages
PredictRepeat ==
    /\ pc = "idle"
    /\ \E img \in (IF history = None THEN Images
                   ELSE {history.image} \cup OtherImages) : image' = img
    /\ pc' = "mesonet"
    /\ mesonet_result' = None
    /\ xception_result' = None
    /\ frequency_result' = None
    /\ biological_result' = None
    /\ calls' = << >>
    /\ returned' = None
    /\ UNCHANGED <<analyzers, weights>>

\* the call ends and is the one remembered from now on
FinishRemember ==
    /\ Finish
    /\ history' = [image |-> image, returned |-> returned, between |-> {}]

\* the call ends, after the remembered one
FinishLater ==
    /\ Finish
    /\ history # None
    /\ history' = [history EXCEPT !.between = @ \cup ({image} \cap OtherImages)]

NextRepeat ==
    \/ PredictRepeat /\ UNCHANGED outside
    \/ RunMesonet /\ UNCHANGED outside
    \/ RunXception /\ UNCHANGED outside
    \/ RunFrequency /\ UNCHANGED outside
    \/ RunBiological /\ UNCHANGED outside
    \/ Combine /\ UNCHANGED outside
    \/ FinishRemember /\ UNCHANGED <<upload, backend>>
    \/ FinishLater /\ UNCHANGED <<upload, backend>>

SpecRepeat == InitWired /\ [][NextRepeat]_vars

\* the running call is on the image of the remembered one
SameImageAgain == history # None /\ image = history.image

----------------------------------------------------------------------------
(* C19: no step of a predict call, of an analyzer or of the combiner,      *)
(* changes the input image or the instance state (the injected analyzers,  *)
(* self.weights): what one request leaves behind for a later one is what   *)
(* it found.                                                               *)
InCall == pc # "idle"

C19_PredictLeavesState ==
    [][/\ analyzers' = analyzers
       /\ weights' = weights
       /\ (InCall /\ InCall') => image' = image]_vars

\* a call that went through all four analyzers and the combination
C19_Witness ==
    /\ NormalPath
    /\ AllFourCalled
    /\ weights = InitialWeights
    /\ ~Fails(image.mesonet) /\ ~Fails(image.xception)

----------------------------------------------------------------------------
(* The two HTTP entry points that take an uploaded file: POST / of the     *)
(* analysis service (upload.py) and POST /predict of the models service    *)
(* (main.py).  upload tells what has been done with the file at hand.      *)

NoChecks == [authenticated |-> FALSE, validated |-> FALSE, stored |-> FALSE]

\* upload_file: get_current_user, validate_upload_file, storage_service.upload_file,
\* then the Analysis row in status PENDING; the models service is not called
UploadFile ==
    /\ pc = "idle"
    /\ \E token_ok, file_ok, storage_ok \in BOOLEAN :
           upload' = [authenticated |-> token_ok,
                      validated     |-> token_ok /\ file_ok,
                      stored        |-> token_ok /\ file_ok /\ storage_ok]
    /\ UNCHANGED <<analyzers, weights, pc, image, mesonet_result, xception_result,
                   frequency_result, biological_result, calls, returned>>

\* predict of main.py: file.read(), Image.open, convert('RGB'),
\* ensemble.predict(image); the file is the one uploaded before or another one
ServicePredict ==
    /\ Predict
    /\ \/ upload # None /\ UNCHANGED upload
       \/ upload' = NoChecks

NextService ==
    \/ UploadFile /\ UNCHANGED <<history, backend>>
    \/ ServicePredict /\ UNCHANGED <<history, backend>>
    \/ RunMesonet /\ UNCHANGED outside
    \/ RunXception /\ UNCHANGED outside
    \/ RunFrequency /\ UNCHANGED outside
    \/ RunBiological /\ UNCHANGED outside
    \/ Combine /\ UNCHANGED outside
    \/ Finish /\ UNCHANGED outside

SpecService == InitWired /\ [][NextService]_vars

(* C20: whenever the scoring core runs on an uploaded file, authentication, *)
(* file-type validation and storage of that upload have succeeded before.  *)
C20_ChecksBeforeCore ==
    InCall =>
        /\ upload # None
        /\ upload.authenticated
        /\ upload.validated
        /\ upload.stored

----------------------------------------------------------------------------
(* The single-analyzer endpoints of main.py: one analyzer's predict called *)
(* directly on an image, over finer grids of what it extracts              *)

MaxVarianceStep == 10
MaxEdgeStep == 10
MaxFeatureStep == 100
MaxHfStep == 10
MaxCvStep == 12

\* np.var(gray) from 0 to 0.20 in steps of 0.02
VarianceGrid == {Dec(2 * k, 100) : k \in 0..MaxVarianceStep}

\* edge_strength from 0 to 0.40 in steps of 0.04
EdgeGrid == {Dec(4 * k, 100) : k \in 0..MaxEdgeStep}

\* np.var(features) from 0 to 0.100 in steps of 0.001
FeatureGrid == {Dec(k, 1000) : k \in 0..MaxFeatureStep}

\* high_freq_power / total_power from 0 to 1 in steps of 0.1
HfGrid == {Dec(k, 10) : k \in 0..MaxHfStep}

\* hf_std / hf_mean from 0 to 12 in steps of 1
CvGrid == {k * ONE : k \in 0..MaxCvStep}

MesoNetImages ==
    [mesonet : {Exc} \cup [variance : VarianceGrid, edge_strength : EdgeGrid]]

XceptionImages ==
    [xception : {Exc} \cup [feature_variance : FeatureGrid]]

FrequencyImages ==
    [frequency : {Exc} \cup [hf_ratio : HfGrid, cv : CvGrid]]

BiologicalImages ==
    [biological : {Exc} \cup [faces : FaceValues, eyes : EyeValues]]

\* result = mesonet.predict(image); return result
predict_mesonet ==
    /\ pc = "idle"
    /\ \E img \in MesoNetImages :
           /\ image' = img
           /\ mesonet_result' = Invoke("mesonet", img)
           /\ returned' = mesonet_result'
    /\ calls' = <<"mesonet">>
    /\ pc' = "done"
    /\ UNCHANGED <<analyzers, weights, xception_result, frequency_result,
                   biological_result>>

\* result = xception.predict(image); return result
predict_xception ==
    /\ pc = "idle"
    /\ \E img \in XceptionImages :
           /\ image' = img
           /\ xception_result' = Invoke("xception", img)
           /\ returned' = xception_result'
    /\ calls' = <<"xception">>
    /\ pc' = "done"
    /\ UNCHANGED <<analyzers, weights, mesonet_result, frequency_result,
                   biological_result>>

\* result = frequency.predict(image); return result
predict_frequency ==
    /\ pc = "idle"
    /\ \E img \in FrequencyImages :
           /\ image' = img
           /\ frequency_result' = Invoke("frequency", img)
           /\ returned' = frequency_result'
    /\ calls' = <<"frequency">>
    /\ pc' = "done"
    /\ UNCHANGED <<analyzers, weights, mesonet_result, xception_result,
                   biological_result>>

\* result = biological.predict(image); return result
predict_biological ==
    /\ pc = "idle"
    /\ \E img \in BiologicalImages :
           /\ image' = img
           /\ biological_result' = Invoke("biological", img)
           /\ returned' = biological_result'
    /\ calls' = <<"biological">>
    /\ pc' = "done"
    /\ UNCHANGED <<analyzers, weights, mesonet_result, xception_result,
                   frequency_result>>

NextEndpoints ==
    \/ predict_mesonet /\ UNCHANGED outside
    \/ predict_xception /\ UNCHANGED outside
    \/ predict_frequency /\ UNCHANGED outside
    \/ predict_biological /\ UNCHANGED outside
    \/ Finish /\ UNCHANGED outside

SpecEndpoints == InitWired /\ [][NextEndpoints]_vars

\* the endpoint of analyzer n has answered with a computed result
Computed(n) ==
    /\ pc = "done"
    /\ calls = <<n>>
    /\ ~Fails(image[n])


\* the score MesoNet.predict returns for the given variance and edge strength
MesoNetScore(v, e) ==
    MesoNet_predict([mesonet |-> [variance |-> v, edge_strength |-> e]]).score

(* C21: a computed MesoNet score is 0.6 * (1 - min(variance * 10, 1)) +    *)
(* 0.4 * (1 - min(edge_strength * 5, 1)); it does not increase when        *)
(* variance or edge_strength grows, no longer changes with variance from   *)
(* 0.1 on nor with edge_strength from 0.2 on, and is 0 with both capped.   *)
C21_MesoNetScore ==
    Computed("mesonet") =>
        LET v == image.mesonet.variance
            e == image.mesonet.edge_strength
            s == mesonet_result.score
        IN  /\ 10 * s = 6 * (ONE - Min(v * 10, ONE)) + 4 * (ONE - Min(e * 5, ONE))
            /\ \A v2 \in VarianceGrid : v2 >= v => MesoNetScore(v2, e) <= s
            /\ \A e2 \in EdgeGrid : e2 >= e => MesoNetScore(v, e2) <= s
            /\ \A v2 \in VarianceGrid :
                   (v >= Dec(1, 10) /\ v2 >= Dec(1, 10)) => MesoNetScore(v2, e) = s
            /\ \A e2 \in EdgeGrid :
                   (e >= Dec(2, 10) /\ e2 >= Dec(2, 10)) => MesoNetScore(v, e2) = s
            /\ (v >= Dec(1, 10) /\ e >= Dec(2, 10)) => s = 0

\* both caps reached, not at the first capped value: score 0
C21_Witness ==
    /\ Computed("mesonet")
    /\ image.mesonet.variance > Dec(1, 10)
    /\ image.mesonet.edge_strength > Dec(2, 10)
    /\ mesonet_result.score = 0

\* below both caps the score lies strictly between 0 and 1
C21_WitnessBelowCaps ==
    /\ Computed("mesonet")
    /\ image.mesonet.variance = Dec(4, 100)
    /\ image.mesonet.edge_strength = Dec(8, 100)
    /\ mesonet_result.score = Dec(60, 100)


\* the score XceptionNet.predict returns for the given feature variance
XceptionScore(fv) ==
    XceptionNet_predict([xception |-> [feature_variance |-> fv]]).score

(* C22: a computed XceptionNet score is min(|feature_variance - 0.02| * 20, *)
(* 1); it is 0 at feature_variance 0.02, and a deviation of the same size   *)
(* above and below 0.02 gets the same score.                               *)
C22_XceptionScore ==
    Computed("xception") =>
        LET fv == image.xception.feature_variance
            s  == xception_result.score
        IN  /\ s = Min(Abs(fv - Dec(2, 100)) * 20, ONE)
            /\ fv = Dec(2, 100) => s = 0
            /\ \A fv2 \in FeatureGrid :
                   fv2 - Dec(2, 100) = Dec(2, 100) - fv => XceptionScore(fv2) = s

\* 0.005 below the reference, with its mirror image 0.035 in the grid
C22_Witness ==
    /\ Computed("xception")
    /\ image.xception.feature_variance = Dec(5, 1000)
    /\ Dec(35, 1000) \in FeatureGrid
    /\ xception_result.score = Dec(3, 10)
    /\ XceptionScore(Dec(35, 1000)) = Dec(3, 10)

\* at the reference itself the score is 0
C22_WitnessReference ==
    /\ Computed("xception")
    /\ image.xception.feature_variance = Dec(2, 100)
    /\ xception_result.score = 0


(* C23: a computed FrequencyAnalyzer score is 0.6 * fft_anomaly + 0.4 *    *)
(* dct_anomaly with fft_anomaly = min(hf_ratio * 2, 1) and dct_anomaly =   *)
(* min(cv / 10, 1), and the result reports these two values unchanged.     *)
C23_FrequencyScore ==
    Computed("frequency") =>
        LET hf_ratio == image.frequency.hf_ratio
            cv       == image.frequency.cv
            r        == frequency_result
        IN  /\ r.fft_anomaly = Min(hf_ratio * 2, ONE)
            /\ r.dct_anomaly = Min(cv \div 10, ONE)
            /\ 10 * r.score = 6 * r.fft_anomaly + 4 * r.dct_anomaly
            /\ r.fft_anomaly = analyze_fft(image)
            /\ r.dct_anomaly = analyze_dct(image)

\* neither branch capped, the two anomalies different
C23_Witness ==
    /\ Computed("frequency")
    /\ frequency_result.fft_anomaly = Dec(4, 10)
    /\ frequency_result.dct_anomaly = Dec(9, 10)
    /\ frequency_result.score = Dec(60, 100)

\* both branches capped
C23_WitnessCapped ==
    /\ Computed("frequency")
    /\ image.frequency.hf_ratio > Dec(5, 10)
    /\ image.frequency.cv > 10 * ONE
    /\ frequency_result.score = ONE

----------------------------------------------------------------------------
(* C24: in a normal-path result, four is_fake votes give is_deepfake true  *)
(* and four not-fake votes give is_deepfake false.                         *)
C24_UnanimousVotesDecide ==
    NormalPath =>
        /\ returned.voting.fake_votes = 4 => returned.is_deepfake
        /\ returned.voting.real_votes = 4 => ~returned.is_deepfake

\* four fake votes, the smallest margin the inputs give
C24_Witness ==
    /\ NormalPath
    /\ \A n \in Names : Returned(n) /\ ResultOf(n).is_fake
    /\ returned.voting.fake_votes = 4
    /\ returned.is_deepfake

\* four real votes, none of them a fallback
C24_WitnessAllReal ==
    /\ NormalPath
    /\ \A n \in Names :
           Returned(n) /\ ~ResultOf(n).is_fake /\ "error" \notin DOMAIN ResultOf(n)
    /\ returned.voting.real_votes = 4
    /\ ~returned.is_deepfake

----------------------------------------------------------------------------
(* The combination in the arithmetic Python performs it in: IEEE 754       *)
(* binary64, round to nearest, ties to even.  A double x with 0 <= x < 2   *)
(* that is a multiple of 2^-60 is the pair <<hi, lo>> with                 *)
(* x = (hi * 2^30 + lo) * 2^-60.                                           *)

Limb == 1073741824

\* below 2^23 * 2^30 * 2^-60 = 2^-7 every multiple of 2^-60 has at most 53 bits
ExactBelow == 8388608

MaxHalvings == 2

DZero == <<0, 0>>

DHalf == <<536870912, 0>>

DOne == <<1073741824, 0>>

\* the number of low bits that do not fit into 53 significant bits
RECURSIVE DropBits(_)
DropBits(hi) == IF hi < ExactBelow THEN 0 ELSE 1 + DropBits(hi \div 2)

RECURSIVE Pow2(_)
Pow2(k) == IF k = 0 THEN 1 ELSE 2 * Pow2(k - 1)

\* the double nearest to the exact value <<hi, lo>>, ties to even
DRound(hi, lo) ==
    LET k    == DropBits(hi)
        q    == Pow2(k)
        r    == lo % q
        down == lo - r
        up   == k > 0 /\ (2 * r > q \/ (2 * r = q /\ (down \div q) % 2 = 1))
        lo2  == IF up THEN down + q ELSE down
    IN  <<hi + lo2 \div Limb, lo2 % Limb>>

\* a + b
DAdd(a, b) ==
    LET lo == a[2] + b[2]
    IN  DRound(a[1] + b[1] + lo \div Limb, lo % Limb)

\* a < b
DLess(a, b) == a[1] < b[1] \/ (a[1] = b[1] /\ a[2] < b[2])

\* abs(a - b)
DAbsDiff(a, b) ==
    LET big    == IF DLess(a, b) THEN b ELSE a
        small  == IF DLess(a, b) THEN a ELSE b
        borrow == IF big[2] < small[2] THEN 1 ELSE 0
    IN  DRound(big[1] - small[1] - borrow, big[2] - small[2] + borrow * Limb)

\* a / 2 and a * 2, both exact
DHalve(a) == <<a[1] \div 2, (a[1] % 2) * (Limb \div 2) + a[2] \div 2>>

DTwice(a) == <<2 * a[1] + (2 * a[2]) \div Limb, (2 * a[2]) % Limb>>

\* score * weight for a score that is 0 or a power of two: exact
RECURSIVE DTimes(_, _)
DTimes(score, weight) ==
    IF score = DZero THEN DZero
    ELSE IF score = DOne THEN weight
    ELSE DTimes(DTwice(score), DHalve(weight))

\* the scores 1, 1/2, ..., 2^-MaxHalvings, and 0
RECURSIVE DHalved(_)
DHalved(k) == IF k = 0 THEN DOne ELSE DHalve(DHalved(k - 1))

ScoreDoubles == {DZero} \cup {DHalved(k) : k \in 0..MaxHalvings}

\* self.weights as doubles: 0.30 = 0x1.3333333333333p-2, 0.35 = 0x1.6666666666666p-2,
\* 0.20 = 0x1.999999999999ap-3, 0.15 = 0x1.3333333333333p-3
DoubleWeights ==
    [mesonet    |-> <<322122547, 214748352>>,
     xception   |-> <<375809638, 429496704>>,
     frequency  |-> <<214748364, 858993472>>,
     biological |-> <<161061273, 644245088>>]


\* the except clause of an analyzer's predict, its literals as doubles
FallbackDouble ==
    [score |-> DHalf, is_fake |-> FALSE, confidence |-> DZero,
     error |-> "internal error"]

\* the result an analyzer computes for a score: is_fake and confidence from it
ComputedDouble(score) ==
    [score      |-> score,
     is_fake    |-> DLess(DHalf, score),
     confidence |-> DTwice(DAbsDiff(score, DHalf))]

AnalyzerResultDoubles == {FallbackDouble} \cup {ComputedDouble(s) : s \in ScoreDoubles}

\* the try block of EnsembleDetector.predict from "Extract scores" on, in doubles
Ensemble_combine_double(m, x, f, b, w) ==
    LET details == [mesonet |-> m, xception |-> x, frequency |-> f, biological |-> b]
        scores  == [n \in Names |-> details[n].score]
        ensemble_score ==
            DAdd(DAdd(DAdd(DTimes(scores["mesonet"], w["mesonet"]),
                           DTimes(scores["xception"], w["xception"])),
                      DTimes(scores["frequency"], w["frequency"])),
                 DTimes(scores["biological"], w["biological"]))
        is_deepfake == DLess(DHalf, ensemble_score)
        confidence  == DTwice(DAbsDiff(ensemble_score, DHalf))
        votes       == [n \in Names |-> details[n].is_fake]
        votes_fake  == SumVotes(votes)
        votes_real  == Cardinality(DOMAIN votes) - votes_fake
    IN  [is_deepfake      |-> is_deepfake,
         confidence_score |-> confidence,
         ensemble_score   |-> ensemble_score,
         model_scores     |-> scores,
         voting           |-> [fake_votes       |-> votes_fake,
                               real_votes       |-> votes_real,
                               individual_votes |-> votes],
         ensemble_weights |-> w,
         model_details    |-> details]

\* ensemble.predict(image) up to the fourth analyzer's answer: each analyzer
\* has computed a result or fallen back
AnalyzersAnswer ==
    /\ pc = "idle"
    /\ mesonet_result' \in AnalyzerResultDoubles
    /\ xception_result' \in AnalyzerResultDoubles
    /\ frequency_result' \in AnalyzerResultDoubles
    /\ biological_result' \in AnalyzerResultDoubles
    /\ calls' = <<"mesonet", "xception", "frequency", "biological">>
    /\ pc' = "combine"
    /\ UNCHANGED <<analyzers, weights, image, returned>>

\* scores, ensemble_score, verdict, votes, result; return result
CombineDoubles ==
    /\ pc = "combine"
    /\ returned' = Ensemble_combine_double(mesonet_result, xception_result,
                                           frequency_result, biological_result,
                                           DoubleWeights)
    /\ pc' = "done"
    /\ UNCHANGED <<analyzers, weights, image, mesonet_result, xception_result,
                   frequency_result, biological_result, calls>>

NextDoubles ==
    \/ AnalyzersAnswer /\ UNCHANGED outside
    \/ CombineDoubles /\ UNCHANGED outside
    \/ Finish /\ UNCHANGED outside

SpecDoubles == InitWired /\ [][NextDoubles]_vars

\* every analyzer of the finished call fell back
AllFellBack == pc = "done" /\ \A n \in Names : "error" \in DOMAIN ResultOf(n)

C25_AllFallbacksVerdict ==
    AllFellBack =>
        /\ returned.is_deepfake = FALSE
        /\ returned.voting.fake_votes = 0
        /\ returned.voting.real_votes = 4
        /\ "error" \notin DOMAIN returned
        /\ \A n \in Names : "error" \in DOMAIN returned.model_details[n]

\* the value the sum 0.5*0.30 + 0.5*0.35 + 0.5*0.20 + 0.5*0.15 has in doubles:
\* 0.49999999999999994 = 0.5 - 2^-54
C25_OneUlpBelowHalf ==
    AllFellBack =>
        /\ returned.ensemble_score = <<536870911, 1073741760>>
        /\ returned.confidence_score = <<0, 128>>

----------------------------------------------------------------------------
(* C26: feature_variance being non-negative, a computed XceptionNet result *)
(* for a feature_variance below 0.02 has a score of at most 0.4 and is     *)
(* never is_fake; is_fake true occurs only for feature_variance > 0.045.   *)
C26_LowVarianceNeverFake ==
    Computed("xception") =>
        LET fv == image.xception.feature_variance
            r  == xception_result
        IN  /\ fv >= 0
            /\ fv < Dec(2, 100) => (r.score <= Dec(4, 10) /\ ~r.is_fake)
            /\ r.is_fake => fv > Dec(45, 1000)

\* feature_variance 0: the largest score below the reference, 0.4, not fake
C26_Witness ==
    /\ Computed("xception")
    /\ image.xception.feature_variance = 0
    /\ xception_result.score = Dec(4, 10)
    /\ ~xception_result.is_fake

\* just above 0.045 the result is fake, at 0.045 it is not
C26_WitnessFake ==
    /\ Computed("xception")
    /\ image.xception.feature_variance = Dec(46, 1000)
    /\ xception_result.is_fake
    /\ ~XceptionNet_predict([xception |-> [feature_variance |-> Dec(45, 1000)]]).is_fake

----------------------------------------------------------------------------
(* C27: a detector miss of BiologicalAnalyzer (no face, or fewer than two  *)
(* eyes) is not an error: the result has no error field and carries        *)
(* symmetry_score and eye_anomaly, which tells it from the exception       *)
(* fallback even at the same score 0.5.                                    *)
ExceptionFallbackKeys == {"score", "is_fake", "confidence", "error"}

C27_MissIsNotAnError ==
    (BiologicalComputed /\ (NoFace \/ FewEyes)) =>
        /\ "error" \notin DOMAIN biological_result
        /\ {"symmetry_score", "eye_anomaly"} \subseteq DOMAIN biological_result
        /\ DOMAIN biological_result # ExceptionFallbackKeys
        /\ DOMAIN BiologicalAnalyzer_predict(
               [biological |-> Exc]) = ExceptionFallbackKeys

\* a miss of both detectors: score 0.5 as in the fallback, yet no error
C27_Witness ==
    /\ BiologicalComputed /\ NoFace /\ FewEyes
    /\ biological_result.score = BiologicalAnalyzer_predict([biological |-> Exc]).score
    /\ "error" \notin DOMAIN biological_result
    /\ "symmetry_score" \in DOMAIN biological_result

----------------------------------------------------------------------------
(* C28: the analyzers are invoked in the order mesonet, xception,          *)
(* frequency, biological; when one raises outward, those after it are not  *)
(* invoked in that call, and the safe default that is returned holds none  *)
(* of the results obtained before.                                         *)
SourceOrder == <<"mesonet", "xception", "frequency", "biological">>

\* the positions in SourceOrder of the analyzers that raise when called
RaisingPositions == {i \in 1..4 : analyzers[SourceOrder[i]] = "raises"}

FirstRaising == CHOOSE i \in RaisingPositions : \A j \in RaisingPositions : i <= j

SafeDefaultKeys == {"is_deepfake", "confidence_score", "ensemble_score", "error"}

----------------------------------------------------------------------------
(* The auth service (auth/app/main.py) and the upload route of the         *)
(* analysis service (analysis/app/routes/upload.py) over one database      *)

MaxUploads == 1

\* MAX_FILE_SIZE, 100 * 1024 * 1024 by default
MAX_FILE_SIZE == 104857600

ALLOWED_TYPES == {"image/jpeg", "image/png", "image/jpg", "image/webp",
                  "video/mp4", "video/mpeg", "video/quicktime", "video/x-msvideo"}

\* what magic.from_buffer finds in an upload
MimeTypes == {"image/png", "video/mp4", "application/pdf"}

\* len(content) of an upload
FileSizes == {0, 1, MAX_FILE_SIZE, MAX_FILE_SIZE + 1}

Files == [file_size : FileSizes, mime_type : MimeTypes]

\* what a request carries as credentials: no Authorization header, a header
\* that is not "Bearer ...", a token jwt.decode rejects, or a token login issued
Credentials ==
    {[kind |-> "missing"], [kind |-> "malformed"], [kind |-> "invalid"]} \cup
    {[kind |-> "token", user_id |-> u] : u \in tokens}

\* the user a credential speaks for
Bearer(cred) == IF cred.kind = "token" THEN cred.user_id ELSE "nobody"

\* db.query(User).filter(User.id == user_id).first() found a row that is active
IsActiveUser(u) == users[u] # None /\ users[u].is_active

\* get_current_user of the auth service: the user, or 401
auth_get_current_user(cred) ==
    IF cred.kind # "token" THEN [status |-> 401]
    ELSE IF ~IsActiveUser(cred.user_id) THEN [status |-> 401]
    ELSE [user |-> cred.user_id]

\* get_current_user of the upload route, were it not to look at is_active
upload_get_current_user_any(cred) ==
    IF cred.kind # "token" THEN [status |-> 401]
    ELSE IF users[cred.user_id] = None THEN [status |-> 401]
    ELSE [user |-> cred.user_id]

\* get_current_user of the upload route: the user, or 401
upload_get_current_user(cred) ==
    IF cred.kind = "missing" THEN [status |-> 401]
    ELSE IF cred.kind = "malformed" THEN [status |-> 401]
    ELSE IF cred.kind = "invalid" THEN [status |-> 401]
    ELSE IF ~IsActiveUser(cred.user_id) THEN [status |-> 401]
    ELSE [user |-> cred.user_id]

\* validate_upload_file, were it to let an empty file through
validate_upload_file_empty(file) ==
    IF file.file_size > MAX_FILE_SIZE THEN [status |-> 400]
    ELSE IF file.mime_type \notin ALLOWED_TYPES THEN [status |-> 400]
    ELSE None

\* validate_upload_file: the HTTP error it raises, or none
validate_upload_file(file) ==
    IF file.file_size = 0 THEN [status |-> 400]
    ELSE IF file.file_size > MAX_FILE_SIZE THEN [status |-> 400]
    ELSE IF file.mime_type \notin ALLOWED_TYPES THEN [status |-> 400]
    ELSE None

Respond(op, cred, status) == [op |-> op, user |-> Bearer(cred), status |-> status]


\* what the model state outside the backend does not do in a backend step
core == <<analyzers, weights, pc, image, mesonet_result, xception_result,
          frequency_result, biological_result, calls, returned, history, upload>>

\* POST /register
register ==
    /\ response = None
    /\ \E u \in UserIds :
           IF users[u] # None
           THEN /\ response' = [op |-> "register", user |-> u, status |-> 400]
                /\ UNCHANGED users
           ELSE /\ users' = [users EXCEPT ![u] = [is_active |-> TRUE]]
                /\ response' = [op |-> "register", user |-> u, status |-> 201]
    /\ UNCHANGED <<tokens, objects, analyses, request>>

\* POST /token; a response to it also says whether verify_password accepted
login ==
    /\ response = None
    /\ \E u \in UserIds, password_ok \in BOOLEAN :
           LET answer(status) == [op |-> "login", user |-> u, status |-> status,
                                  password_ok |-> password_ok]
           IN  IF users[u] = None \/ ~password_ok
               THEN /\ response' = answer(401)
                    /\ UNCHANGED tokens
               ELSE IF ~users[u].is_active
               THEN /\ response' = answer(403)
                    /\ UNCHANGED tokens
               ELSE /\ tokens' = tokens \cup {u}
                    /\ response' = answer(200)
    /\ UNCHANGED <<users, objects, analyses, request>>

\* GET /me
get_profile ==
    /\ response = None
    /\ \E cred \in Credentials :
           LET current_user == auth_get_current_user(cred)
           IN  response' = Respond("get_profile", cred,
                                   IF "status" \in DOMAIN current_user
                                   THEN current_user.status ELSE 200)
    /\ UNCHANGED <<users, tokens, objects, analyses, request>>

\* PUT /me: email and full_name, which the model does not hold
update_profile ==
    /\ response = None
    /\ \E cred \in Credentials, email_taken \in BOOLEAN :
           LET current_user == auth_get_current_user(cred)
           IN  response' = Respond("update_profile", cred,
                                   IF "status" \in DOMAIN current_user
                                   THEN current_user.status
                                   ELSE IF email_taken THEN 400 ELSE 200)
    /\ UNCHANGED <<users, tokens, objects, analyses, request>>

\* POST /me/password: hashed_password, which the model does not hold
change_password ==
    /\ response = None
    /\ \E cred \in Credentials, password_ok \in BOOLEAN :
           LET current_user == auth_get_current_user(cred)
           IN  response' = Respond("change_password", cred,
                                   IF "status" \in DOMAIN current_user
                                   THEN current_user.status
                                   ELSE IF password_ok THEN 200 ELSE 400)
    /\ UNCHANGED <<users, tokens, objects, analyses, request>>

\* DELETE /me
deactivate_account ==
    /\ response = None
    /\ \E cred \in Credentials :
           LET current_user == auth_get_current_user(cred)
           IN  IF "status" \in DOMAIN current_user
               THEN /\ response' = Respond("deactivate_account", cred, current_user.status)
                    /\ UNCHANGED users
               ELSE /\ users' = [users EXCEPT ![current_user.user].is_active = FALSE]
                    /\ response' = Respond("deactivate_account", cred, 200)
    /\ UNCHANGED <<tokens, objects, analyses, request>>

\* GET /users and GET /users/{user_id}: reads, for admins
list_users ==
    /\ response = None
    /\ \E cred \in Credentials, is_admin \in BOOLEAN :
           LET current_user == auth_get_current_user(cred)
           IN  response' = Respond("list_users", cred,
                                   IF "status" \in DOMAIN current_user
                                   THEN current_user.status
                                   ELSE IF is_admin THEN 200 ELSE 403)
    /\ UNCHANGED <<users, tokens, objects, analyses, request>>

\* upload_file, its dependency: current_user = Depends(get_current_user)
upload_authenticate ==
    /\ response = None
    /\ request = None
    /\ Cardinality(objects) < MaxUploads
    /\ \E cred \in Credentials, file \in Files :
           LET current_user == upload_get_current_user(cred)
           IN  IF "status" \in DOMAIN current_user
               THEN /\ response' = Respond("upload_file", cred, current_user.status)
                    /\ UNCHANGED request
               ELSE /\ request' = [user |-> current_user.user, file |-> file,
                                   at |-> "validate"]
                    /\ UNCHANGED response
    /\ UNCHANGED <<users, tokens, objects, analyses>>

\* content, mime_type, file_size = await validate_upload_file(file)
upload_validate ==
    /\ response = None
    /\ request # None /\ request.at = "validate"
    /\ LET error == validate_upload_file(request.file)
       IN  IF error # None
           THEN /\ response' = [op |-> "upload_file", user |-> request.user,
                                status |-> error.status]
                /\ request' = None
           ELSE /\ request' = [request EXCEPT !.at = "store"]
                /\ UNCHANGED response
    /\ UNCHANGED <<users, tokens, objects, analyses>>

\* storage_service.upload_file(content, object_name, mime_type), or its failure
upload_store ==
    /\ response = None
    /\ request # None /\ request.at = "store"
    /\ \E stored \in BOOLEAN :
           IF stored
           THEN LET object_name == <<request.user, Cardinality(objects) + 1>>
                IN  /\ objects' = objects \cup {object_name}
                    /\ request' = [user |-> request.user, file |-> request.file,
                                   at |-> "record", object_name |-> object_name]
                    /\ UNCHANGED response
           ELSE /\ response' = [op |-> "upload_file", user |-> request.user,
                                status |-> 500]
                /\ request' = None
                /\ UNCHANGED objects
    /\ UNCHANGED <<users, tokens, analyses>>

\* analysis = Analysis(...); db.add(analysis); db.commit(); return {...}
upload_record ==
    /\ response = None
    /\ request # None /\ request.at = "record"
    /\ \E committed \in BOOLEAN :
           IF committed
           THEN /\ analyses' = analyses \cup
                        {[user_id   |-> request.user,
                          file_path |-> request.object_name,
                          file_size |-> request.file.file_size,
                          mime_type |-> request.file.mime_type,
                          status    |-> "pending"]}
                /\ response' = [op |-> "upload_file", user |-> request.user,
                                status |-> 200]
           ELSE /\ response' = [op |-> "upload_file", user |-> request.user,
                                status |-> 500]
                /\ UNCHANGED analyses
    /\ request' = None
    /\ UNCHANGED <<users, tokens, objects>>

\* the client has the response
receive ==
    /\ response # None
    /\ response' = None
    /\ UNCHANGED <<users, tokens, objects, analyses, request>>

NextBackend ==
    \/ register /\ UNCHANGED core
    \/ login /\ UNCHANGED core
    \/ get_profile /\ UNCHANGED core
    \/ update_profile /\ UNCHANGED core
    \/ change_password /\ UNCHANGED core
    \/ deactivate_account /\ UNCHANGED core
    \/ list_users /\ UNCHANGED core
    \/ upload_authenticate /\ UNCHANGED core
    \/ upload_validate /\ UNCHANGED core
    \/ upload_store /\ UNCHANGED core
    \/ upload_record /\ UNCHANGED core
    \/ receive /\ UNCHANGED core

SpecBackend == InitWired /\ [][NextBackend]_vars


\* a step that answers an upload_file request
AnswersUpload == response = None /\ response' # None /\ response'.op = "upload_file"

\* the record passed validate_upload_file, lies in object storage and belongs
\* to a user who held a token
ProperRecord(a) ==
    /\ a.status = "pending"
    /\ a.file_size > 0 /\ a.file_size <= MAX_FILE_SIZE
    /\ a.mime_type \in ALLOWED_TYPES
    /\ a.file_path \in objects'
    /\ users'[a.user_id] # None /\ a.user_id \in tokens'

\* C29: upload_file adds an Analysis record only once the caller was
\* authenticated, the file passed validation (not empty, at most
\* MAX_FILE_SIZE, an allowed MIME type) and the object was stored, and the
\* request is then answered 200; a request answered with an error (401, 400
\* for validation, 500 for storage) adds no record; every record is PENDING.
C29_RecordAfterChecks ==
    [][ /\ \A a \in analyses' : ProperRecord(a)
        /\ analyses' # analyses =>
              /\ AnswersUpload /\ response'.status = 200
              /\ request # None /\ request.at = "record"
              /\ request.object_name \in objects
              /\ validate_upload_file(request.file) = None
              /\ Cardinality(analyses') = Cardinality(analyses) + 1
        /\ (AnswersUpload /\ response'.status # 200) =>
              /\ response'.status \in {400, 401, 500}
              /\ analyses' = analyses
        /\ (request # None /\ request.at = "validate" /\ request' # request
                /\ validate_upload_file(request.file) # None) =>
              (AnswersUpload /\ response'.status = 400 /\ request' = None)
        /\ (request # None /\ request.at = "store" /\ request' # request
                /\ objects' = objects) =>
              (AnswersUpload /\ response'.status = 500 /\ request' = None)
      ]_<<analyses, request, response, objects>>

\* an upload was answered 200 and its record is there
C29_Witness ==
    /\ response # None /\ response.op = "upload_file" /\ response.status = 200
    /\ \E a \in analyses : a.user_id = response.user /\ a.status = "pending"

\* an upload was turned down by validation and left no record
C29_WitnessInvalid ==
    /\ response # None /\ response.op = "upload_file" /\ response.status = 400
    /\ analyses = {}

\* the storage upload failed and left no record
C29_WitnessStorageFailed ==
    /\ response # None /\ response.op = "upload_file" /\ response.status = 500
    /\ objects = {} /\ analyses = {}


\* the account exists and deactivate_account has set is_active to false
Deactivated(u) == users[u] # None /\ ~users[u].is_active

\* the requests that go through get_current_user
AuthenticatedOps == {"get_profile", "update_profile", "change_password",
                     "deactivate_account", "list_users", "upload_file"}

\* a step in which get_current_user answers a request that bears a token of u
\* (an upload that is past its dependency is no such step)
RejectsBearer(u) ==
    /\ response = None /\ response' # None
    /\ response'.op \in AuthenticatedOps
    /\ response'.user = u
    /\ response'.op = "upload_file" => request = None

C30_WitnessAuth ==
    \E u \in tokens : Deactivated(u) /\ response # None /\ response.user = u
                      /\ response.op = "get_profile" /\ response.status = 401

\* a deactivated user logged in with the right password and got 403
C30_WitnessLogin ==
    \E u \in tokens : Deactivated(u) /\ response # None /\ response.user = u
                      /\ response.op = "login" /\ response.password_ok
                      /\ response.status = 403

====
